---- MODULE Spec2Model ----
(***************************************************************************)
(* Enhanced code blocks of primer-spec                                     *)
(* (src/src_js/components/main_content/useEnhancedCodeBlocks.tsx).         *)
(*                                                                         *)
(* Strings are sequences of one-character strings, so that split, trim     *)
(* and the numeric conversion are computed character by character.         *)
(***************************************************************************)
EXTENDS Integers, Sequences, FiniteSets, TLC

VARIABLES
    \* parseCodeHighlightRanges: its two arguments, its result, its position
    rawHighlightRanges, maxLineNumber, highlightedLines, parsePc,
    \* one code element taken through extraction, rendering and copy: the
    \* element, the block's blockLanguage, getCodeblockContents' string, the block
    \* createEnhancedCodeBlock built, the clipboard text, the position
    codeblockContentsEl, blockLanguage, codeblockContents, enhancedCodeBlock, clipboard, contentPc,
    \* the page: the <main> element the hook runs on, the same element as it
    \* was before the latest run, the runs since the page content last
    \* changed, and Config.DEFAULT_CODEBLOCK_VARIANT
    mainEl, mainElBefore, runsSinceChange, defaultVariant,
    \* drag selection: the module-level anchor line (<<>> for null, <<n>> for
    \* line n), the browser's selection (<<>> for none, else one range), the
    \* block whose rows the pointer is over (its path, <<>> for none), and
    \* the latest pointer event handled
    mouseDownStartLine, selection, pointerIn, lastEvent,
    \* the copy button: the click handlers suspended at their await, the
    \* callbacks setTimeout holds (oldest first), the clicks made so far
    clickHandlers, timeouts, clickCount

parseVars == <<rawHighlightRanges, maxLineNumber, highlightedLines, parsePc>>
contentVars == <<codeblockContentsEl, blockLanguage, codeblockContents, enhancedCodeBlock, clipboard, contentPc>>

pageVars == <<mainEl, mainElBefore, runsSinceChange, defaultVariant>>

selectVars == <<mouseDownStartLine, selection, pointerIn, lastEvent>>

buttonVars == <<clickHandlers, timeouts, clickCount>>

vars == <<parseVars, contentVars, pageVars, selectVars, buttonVars>>

(***************************************************************************)
(* Bounds                                                                  *)
(***************************************************************************)
\* tokens joined by "," in one highlight spec
MaxTokens == 2
\* largest line count handed to the range parser
MaxLineNumber == 4
\* code containers on the page
MaxBlocks == 2
\* enhanced blocks on the page the pointer moves over
MaxSelectBlocks == 2
\* runs of the hook with no content change in between
MaxRuns == 2
\* pieces of highlighter output concatenated into one code element
MaxChunks == 3
MaxClicks == 3
\* decimal places the numeric conversion keeps (numbers are held in units
\* of 10^-FracDigits); no token of TokenPool has more
FracDigits == 1

(***************************************************************************)
(* String helpers (String.prototype.split / trim / join)                   *)
(***************************************************************************)
RECURSIVE SplitFrom(_, _, _)
\* the pieces of s between occurrences of sep, cur being the piece being read
SplitFrom(s, sep, cur) ==
    IF s = <<>> THEN <<cur>>
    ELSE IF Head(s) = sep THEN <<cur>> \o SplitFrom(Tail(s), sep, <<>>)
    ELSE SplitFrom(Tail(s), sep, Append(cur, Head(s)))

\* s.split(sep): always at least one piece ("".split(",") is [""])
Split(s, sep) == SplitFrom(s, sep, <<>>)

RECURSIVE Join(_, _)
\* pieces.join(sep)
Join(pieces, sep) ==
    IF pieces = <<>> THEN <<>>
    ELSE IF Len(pieces) = 1 THEN pieces[1]
    ELSE pieces[1] \o <<sep>> \o Join(Tail(pieces), sep)

RECURSIVE TrimLeft(_)
TrimLeft(s) == IF s # <<>> /\ Head(s) = " " THEN TrimLeft(Tail(s)) ELSE s

RECURSIVE TrimRight(_)
TrimRight(s) ==
    IF s # <<>> /\ s[Len(s)] = " " THEN TrimRight(SubSeq(s, 1, Len(s) - 1)) ELSE s

\* s.trim()
Trim(s) == TrimRight(TrimLeft(s))

(***************************************************************************)
(* The numeric conversion +str (ECMAScript StringToNumber) on the alphabet *)
(* digits, "-", ".", " ": a number is [nan, v] with v in units of          *)
(* 10^-FracDigits.                                                         *)
(***************************************************************************)
Digits == {"0", "1", "2", "3", "4", "5", "6", "7", "8", "9"}

DigitVal(c) ==
    CASE c = "0" -> 0 [] c = "1" -> 1 [] c = "2" -> 2 [] c = "3" -> 3
      [] c = "4" -> 4 [] c = "5" -> 5 [] c = "6" -> 6 [] c = "7" -> 7
      [] c = "8" -> 8 [] c = "9" -> 9

RECURSIVE Pow10(_)
Pow10(k) == IF k = 0 THEN 1 ELSE 10 * Pow10(k - 1)

\* what the integer 1 is in the units numbers are held in
Unit == Pow10(FracDigits)

NaN == [nan |-> TRUE, v |-> 0]
Num(v) == [nan |-> FALSE, v |-> v]

AllDigits(s) == \A i \in 1..Len(s) : s[i] \in Digits

RECURSIVE DigitsVal(_)
\* the value of a run of digits
DigitsVal(s) ==
    IF s = <<>> THEN 0 ELSE 10 * DigitsVal(SubSeq(s, 1, Len(s) - 1)) + DigitVal(s[Len(s)])

\* StrUnsignedDecimalLiteral: digits, digits "." digits?, "." digits
UnsignedDecimal(s) ==
    LET parts == Split(s, ".") IN
    IF Len(parts) = 1 THEN
        IF s # <<>> /\ AllDigits(s) THEN Num(DigitsVal(s) * Unit) ELSE NaN
    ELSE IF Len(parts) = 2 THEN
        LET int == parts[1]
            frac == parts[2] IN
        IF /\ AllDigits(int) /\ AllDigits(frac)
           /\ Len(int) + Len(frac) > 0
           /\ Len(frac) <= FracDigits
        THEN Num(DigitsVal(int) * Unit + DigitsVal(frac) * Pow10(FracDigits - Len(frac)))
        ELSE NaN
    ELSE NaN

\* +str: white space trimmed, "" is 0, an optional sign, a decimal literal
ToNumber(s) ==
    LET t == Trim(s) IN
    IF t = <<>> THEN Num(0)
    ELSE IF Head(t) = "-" THEN
        LET u == UnsignedDecimal(Tail(t)) IN
        IF u.nan THEN NaN ELSE Num(0 - u.v)
    ELSE UnsignedDecimal(t)

(***************************************************************************)
(* parseCodeHighlightRanges and isNumWithinInclusiveRange                  *)
(***************************************************************************)
\* a plausible slip: the upper end of the range is not checked
isNumWithinInclusiveRange_NoUpper(num, lower, upper) ==
    ~num.nan /\ num.v >= lower * Unit

\* num != null && !Number.isNaN(num) && num >= lower && num <= upper
isNumWithinInclusiveRange(num, lower, upper) ==
    ~num.nan /\ num.v >= lower * Unit /\ num.v <= upper * Unit

\* for (let i = lower; i <= upper; ++i) highlightedLines.add(i)
RangeMembers(lower, upper) ==
    { lower.v + j * Unit : j \in { k \in 0..((upper.v - lower.v) \div Unit) :
                                     lower.v + k * Unit <= upper.v } }

\* the body of ranges.forEach: what one token adds to the set
RangeContribution(range, maxLine) ==
    LET potentialLineNum == ToNumber(range) IN
    IF isNumWithinInclusiveRange(potentialLineNum, 1, maxLine)
    THEN {potentialLineNum.v}
    ELSE
        LET rangeParts == Split(Trim(range), "-") IN
        IF Len(rangeParts) = 2 THEN
            LET lower == ToNumber(rangeParts[1])
                upper == ToNumber(rangeParts[2]) IN
            IF /\ isNumWithinInclusiveRange(lower, 1, maxLine)
               /\ isNumWithinInclusiveRange(upper, 1, maxLine)
               /\ lower.v <= upper.v
            THEN RangeMembers(lower, upper)
            ELSE {}
        ELSE {}

\* the set of numbers returned, each in units of 10^-FracDigits; a null and
\* an empty rawHighlightRanges are both falsy and both written <<>>
parseCodeHighlightRanges(raw, maxLine) ==
    IF raw = <<>> THEN {}
    ELSE LET ranges == Split(raw, ",") IN
         UNION { RangeContribution(ranges[i], maxLine) : i \in 1..Len(ranges) }

(***************************************************************************)
(* DOM nodes.  Every node is a record of the same shape; a text node has   *)
(* tag "#text" and carries text, an element carries its class list, its    *)
(* data-variant / data-title / data-highlight attributes, its aria-label,  *)
(* its id and its child nodes.  An id is [k, b, l]: kind, numeric block    *)
(* id, line number.                                                        *)
(***************************************************************************)
NoId == [k |-> "", b |-> 0, l |-> 0]

NullNode ==
    [tag |-> "#null", cls |-> {}, variant |-> "", title |-> "", highlight |-> <<>>,
     label |-> "", nid |-> NoId, kids |-> <<>>, text |-> <<>>]

El(tag, cls, kids) == [NullNode EXCEPT !.tag = tag, !.cls = cls, !.kids = kids]

ElId(tag, cls, nid, kids) == [El(tag, cls, kids) EXCEPT !.nid = nid]

Text(s) == [NullNode EXCEPT !.tag = "#text", !.text = s]

IsNull(n) == n.tag = "#null"

\* node.nodeType === Node.ELEMENT_NODE
IsElement(n) == n.tag \notin {"#text", "#null"}

RECURSIVE FirstElementIn(_)
FirstElementIn(kids) ==
    IF kids = <<>> THEN NullNode
    ELSE IF IsElement(Head(kids)) THEN Head(kids)
    ELSE FirstElementIn(Tail(kids))

\* el?.firstElementChild: undefined (NullNode) through a missing element
firstElementChild(n) == IF IsNull(n) THEN NullNode ELSE FirstElementIn(n.kids)

RECURSIVE textContent(_)
RECURSIVE TextOfAll(_)
\* node.textContent (innerText is taken to be the same text)
textContent(n) == IF n.tag = "#text" THEN n.text ELSE TextOfAll(n.kids)
TextOfAll(kids) ==
    IF kids = <<>> THEN <<>> ELSE textContent(Head(kids)) \o TextOfAll(Tail(kids))

\* node.cloneNode(): same tag and attributes, no children (a text keeps its text)
cloneNode(n) == [n EXCEPT !.kids = <<>>]

RECURSIVE HasDescendantWithClass(_, _)
\* el.querySelector('.c') != null: some proper descendant carries the class
HasDescendantWithClass(n, c) ==
    \E i \in 1..Len(n.kids) :
        \/ c \in n.kids[i].cls
        \/ HasDescendantWithClass(n.kids[i], c)

RECURSIVE DescendantsWithClassFrom(_, _, _)
\* the descendants of n carrying class c that lie in its children from the
\* i-th on, in document order
DescendantsWithClassFrom(n, c, i) ==
    IF i > Len(n.kids) THEN <<>>
    ELSE (IF c \in n.kids[i].cls THEN <<n.kids[i]>> ELSE <<>>)
         \o DescendantsWithClassFrom(n.kids[i], c, 1)
         \o DescendantsWithClassFrom(n, c, i + 1)

\* el.querySelectorAll('.c')
DescendantsWithClass(n, c) == DescendantsWithClassFrom(n, c, 1)

RECURSIVE DescendantWithIdFrom(_, _, _)
\* the first descendant of n with that id among its children from the i-th on
DescendantWithIdFrom(n, id, i) ==
    IF i > Len(n.kids) THEN NullNode
    ELSE IF n.kids[i].nid = id THEN n.kids[i]
    ELSE LET below == DescendantWithIdFrom(n.kids[i], id, 1) IN
         IF ~IsNull(below) THEN below ELSE DescendantWithIdFrom(n, id, i + 1)

\* el.querySelector('#id'): the first proper descendant with that id, or null
DescendantWithId(n, id) == DescendantWithIdFrom(n, id, 1)

(***************************************************************************)
(* HTML text.  innerHTML is a sequence of tokens: the opening tag of an    *)
(* element (carrying its attributes), a closing tag, or one character of   *)
(* text.  A tag holds no newline, so splitting the string on "\n" is       *)
(* splitting the token sequence on the newline character token.            *)
(***************************************************************************)
OpenTok(n) == [t |-> "open", c |-> "", el |-> cloneNode(n)]
CloseTok == [t |-> "close", c |-> "", el |-> NullNode]
CharTok(c) == [t |-> "char", c |-> c, el |-> NullNode]
NewlineTok == CharTok("\n")

CharToks(s) == [i \in 1..Len(s) |-> CharTok(s[i])]

RECURSIVE outerHTML(_)
RECURSIVE innerHTMLOf(_)
\* the serialisation of one node, and of a list of child nodes
outerHTML(n) ==
    IF n.tag = "#text" THEN CharToks(n.text)
    ELSE <<OpenTok(n)>> \o innerHTMLOf(n.kids) \o <<CloseTok>>
innerHTMLOf(kids) ==
    IF kids = <<>> THEN <<>> ELSE outerHTML(Head(kids)) \o innerHTMLOf(Tail(kids))

\* the index of the first closing tag in toks, or Len(toks) + 1
RECURSIVE FirstClose(_, _)
FirstClose(toks, i) ==
    IF i > Len(toks) THEN i
    ELSE IF toks[i].t = "close" THEN i
    ELSE FirstClose(toks, i + 1)

\* the length of the run of character tokens that toks starts with
RECURSIVE CharRun(_, _)
CharRun(toks, i) ==
    IF i > Len(toks) \/ toks[i].t # "char" THEN i - 1 ELSE CharRun(toks, i + 1)

RECURSIVE ParseHTML(_)
\* the child nodes an element gets when innerHTML is set to toks: a run of
\* characters is one text node, an element lasts to its closing tag (or to
\* the end when it is never closed), a closing tag that closes nothing is
\* dropped
ParseHTML(toks) ==
    IF toks = <<>> THEN <<>>
    ELSE IF Head(toks).t = "char" THEN
        LET n == CharRun(toks, 1) IN
        <<Text([i \in 1..n |-> toks[i].c])>> \o ParseHTML(SubSeq(toks, n + 1, Len(toks)))
    ELSE IF Head(toks).t = "open" THEN
        LET j == FirstClose(toks, 2) IN
        <<[Head(toks).el EXCEPT !.kids = ParseHTML(SubSeq(toks, 2, j - 1))]>>
            \o ParseHTML(SubSeq(toks, j + 1, Len(toks)))
    ELSE ParseHTML(Tail(toks))

(***************************************************************************)
(* getCodeblockContents                                                    *)
(***************************************************************************)
\* the nodes appended to resultNode for the pieces of one SPAN child taken
\* from piece i on: a clone holding each non-empty piece, a "\n" text node
\* after every piece but the last
RECURSIVE SpanLines(_, _, _)
SpanLines(childNode, lines, i) ==
    IF i > Len(lines) THEN <<>>
    ELSE (IF lines[i] # <<>>
          THEN <<[cloneNode(childNode) EXCEPT !.kids = <<Text(lines[i])>>]>>
          ELSE <<>>)
         \o (IF i < Len(lines) THEN <<Text(<<"\n">>)>> ELSE <<>>)
         \o SpanLines(childNode, lines, i + 1)

\* a plausible slip: a SPAN child is cloned whole, newlines and all
ResultNodesFor_NoSplit(childNode) ==
    IF IsElement(childNode) THEN
        IF childNode.tag = "SPAN"
        THEN <<[cloneNode(childNode) EXCEPT !.kids = <<Text(textContent(childNode))>>]>>
        ELSE <<>>
    ELSE <<childNode>>

\* what one child node of codeEl appends to resultNode
ResultNodesFor(childNode) ==
    IF IsElement(childNode) THEN
        IF childNode.tag = "SPAN"
        THEN SpanLines(childNode, Split(textContent(childNode), "\n"), 1)
        ELSE <<>>
    ELSE <<childNode>>

RECURSIVE ResultNodes(_)
ResultNodes(kids) ==
    IF kids = <<>> THEN <<>>
    ELSE ResultNodesFor(Head(kids)) \o ResultNodes(Tail(kids))

\* resultNode.innerHTML
getCodeblockContents(codeEl) == innerHTMLOf(ResultNodes(codeEl.kids))

(***************************************************************************)
(* createCodeBlockLine, genCopyButton, genCodeBlockHeader,                 *)
(* createEnhancedCodeBlock                                                 *)
(***************************************************************************)
CODEBLOCK_LINE_CLASS == "primer-spec-code-block-line-code"
CODEBLOCK_PROCESSED_CLASS == "primer-spec-code-block-processed"
CODEBLOCK_TITLE_CLASS == "primer-spec-code-block-title"
LANGUAGE_CONSOLE == "console"

\* `${codeblockId}-L${n}`, -LC${n}, -LR${n}, and primer-spec-code-block-${id}
LineId(kind, codeblockNumericId, lineNumber) ==
    [k |-> kind, b |-> codeblockNumericId, l |-> lineNumber]
BlockId(codeblockNumericId) == [k |-> "block", b |-> codeblockNumericId, l |-> 0]

\* the length of the leading run of children that are elements of class gp
\* (Generic::Prompt) or w (Whitespace)
RECURSIVE ExcludedPrefix(_, _)
ExcludedPrefix(children, i) ==
    IF i > Len(children) THEN i - 1
    ELSE IF IsElement(children[i]) /\ ("gp" \in children[i].cls \/ "w" \in children[i].cls)
    THEN ExcludedPrefix(children, i + 1)
    ELSE i - 1

\* the content cell of a console line: when its first child is a prompt
\* span the cell loses its id, and its children are regrouped into a
\* non-selectable span and a span that takes the LC id
ConsoleCodeLine(codeLine, LC_ID) ==
    LET children == codeLine.kids
        firstChild == IF children = <<>> THEN NullNode ELSE children[1] IN
    IF firstChild.tag = "SPAN" /\ "gp" \in firstChild.cls THEN
        LET i == ExcludedPrefix(children, 1) IN
        [codeLine EXCEPT
            !.nid = NoId,
            !.kids = << El("SPAN", {"primer-spec-code-block-non-selectable"},
                           SubSeq(children, 1, i)),
                        ElId("SPAN", {}, LC_ID, SubSeq(children, i + 1, Len(children))) >>]
    ELSE codeLine

\* the <tr> of one line
createCodeBlockLine(codeblockNumericId, language, line, lineNumber, shouldHighlight, showLineNumbers) ==
    LET L_ID == LineId("L", codeblockNumericId, lineNumber)
        LC_ID == LineId("LC", codeblockNumericId, lineNumber)
        LR_ID == LineId("LR", codeblockNumericId, lineNumber)
        numberCell ==
            ElId("TD",
                 {"primer-spec-code-block-line-number"}
                    \cup (IF showLineNumbers
                          THEN {"primer-spec-code-block-line-numbers-shown"} ELSE {}),
                 L_ID, <<>>)
        codeLine ==
            ElId("TD",
                 {CODEBLOCK_LINE_CLASS}
                    \cup (IF shouldHighlight
                          THEN {"primer-spec-code-block-highlighted"} ELSE {}),
                 LC_ID, ParseHTML(line)) IN
    ElId("TR", {}, LR_ID,
         << numberCell,
            IF language = LANGUAGE_CONSOLE THEN ConsoleCodeLine(codeLine, LC_ID)
            ELSE codeLine >>)

\* the copy button with its label and its copy icon
genCopyButton(language) ==
    El("DIV", {"primer-spec-zeroclipboard-container"},
       << [El("BUTTON", {"btn-octicon"}, <<El("I", {"far", "fa-copy"}, <<>>)>>)
              EXCEPT !.label = IF language = LANGUAGE_CONSOLE
                               THEN "Copy all commands" ELSE "Copy"] >>)

\* the header of a titled block: no node for a null title
genCodeBlockHeader(title, anchorId) ==
    IF title = "" THEN <<>>
    ELSE << El("DIV", {"Box-header", "primer-spec-code-block-header"},
               << El("SPAN", {"flex-auto", CODEBLOCK_TITLE_CLASS}, <<Text(<<title>>)>>) >>) >>

\* rawContent.split('\n') with the last line popped when it is '' or '</span>'
ContentLines(rawContent) ==
    LET lines == Split(rawContent, NewlineTok)
        lastLine == lines[Len(lines)] IN
    IF lastLine = <<>> \/ lastLine = <<CloseTok>>
    THEN SubSeq(lines, 1, Len(lines) - 1)
    ELSE lines

\* the enhanced block, or NullNode where the code returns null: that is
\* only when split returns no piece at all, which it never does
createEnhancedCodeBlock(options) ==
    IF Len(Split(options.rawContent, NewlineTok)) = 0 THEN NullNode
    ELSE
    LET lines == ContentLines(options.rawContent)
        highlightRanges == parseCodeHighlightRanges(options.rawHighlightRanges, Len(lines))
        header == genCodeBlockHeader(options.title, options.anchorId)
        rows == [i \in 1..Len(lines) |->
                    createCodeBlockLine(options.codeblockNumericId, options.language,
                                        lines[i], i, (i * Unit) \in highlightRanges,
                                        options.showLineNumbers)] IN
    ElId("DIV", {"Box", "mt-3", "text-mono"}, BlockId(options.codeblockNumericId),
         header \o
         << El("DIV",
               {"Box-body", "p-0", "primer-spec-code-block-body"}
                  \cup (IF header # <<>>
                        THEN {"primer-spec-code-block-header-present"} ELSE {}),
               << El("TABLE", {"highlight"}, <<El("TBODY", {}, rows)>>) >>
               \o (IF Len(lines) > 1 THEN <<genCopyButton(options.language)>> ELSE <<>>)) >>)

(***************************************************************************)
(* copyLines and its two map functions.  A null or undefined result of a   *)
(* map function is written <<>>: filter(Boolean) drops it like ''.         *)
(***************************************************************************)
DEFAULT_COPY_LINES_MAP_FN(line, lineNumber, codeblock) == textContent(line)

CONSOLE_COPY_LINES_MAP_FN(line, lineNumber, codeblock) ==
    IF HasDescendantWithClass(line, "go") THEN <<>>
    ELSE LET lineText == DescendantWithId(line, LineId("LC", codeblock.nid.b, lineNumber)) IN
         IF IsNull(lineText) THEN <<>> ELSE textContent(lineText)

RECURSIVE DropEmpty(_)
\* .filter(Boolean)
DropEmpty(texts) ==
    IF texts = <<>> THEN <<>>
    ELSE (IF Head(texts) = <<>> THEN <<>> ELSE <<Head(texts)>>) \o DropEmpty(Tail(texts))

\* the text copyLines writes to the clipboard
copyLines(codeblock, language) ==
    LET lines == DescendantsWithClass(codeblock, CODEBLOCK_LINE_CLASS)
        linesOfText ==
            DropEmpty([i \in 1..Len(lines) |->
                          IF language = LANGUAGE_CONSOLE
                          THEN CONSOLE_COPY_LINES_MAP_FN(lines[i], i, codeblock)
                          ELSE DEFAULT_COPY_LINES_MAP_FN(lines[i], i, codeblock)]) IN
    Join(linesOfText, "\n")

(***************************************************************************)
(* Paths into the document: the sequence of child indices from the root    *)
(***************************************************************************)
RECURSIVE NodeAt(_, _)
NodeAt(n, p) ==
    IF p = <<>> THEN n
    ELSE IF Head(p) \in 1..Len(n.kids) THEN NodeAt(n.kids[Head(p)], Tail(p))
    ELSE NullNode

RECURSIVE ReplaceAt(_, _, _)
\* parent.replaceChild(new, old) for the node at path p
ReplaceAt(n, p, new) ==
    IF p = <<>> THEN new
    ELSE [n EXCEPT !.kids[Head(p)] = ReplaceAt(@, Tail(p), new)]

\* the two selectors the passes use
Matches(n, selector) ==
    IF selector = "div.highlighter-rouge"
    THEN n.tag = "DIV" /\ "highlighter-rouge" \in n.cls
    ELSE n.tag = "PRE"

RECURSIVE AllPathsFrom(_, _, _)
\* the paths of the descendants of n (itself at path prefix) that lie in its
\* children from the i-th on, in document order
AllPathsFrom(n, prefix, i) ==
    IF i > Len(n.kids) THEN <<>>
    ELSE <<Append(prefix, i)>>
         \o AllPathsFrom(n.kids[i], Append(prefix, i), 1)
         \o AllPathsFrom(n, prefix, i + 1)

\* the paths of all descendants of root, in document order
AllPaths(root) == AllPathsFrom(root, <<>>, 1)

PathSet(root) == LET all == AllPaths(root) IN { all[i] : i \in 1..Len(all) }

\* root.querySelectorAll(selector): the paths of the matching descendants
querySelectorAll(root, selector) ==
    SelectSeq(AllPaths(root), LAMBDA p : Matches(NodeAt(root, p), selector))

\* el.closest('.c') != null: the element at p or one of its ancestors carries c
HasClosest(root, p, c) == \E k \in 0..Len(p) : c \in NodeAt(root, SubSeq(p, 1, k)).cls

(***************************************************************************)
(* getCodeElFrom..., getCodeblockVariant, shouldRetainLegacyCodeBlock,     *)
(* getCodeBlockLanguage                                                    *)
(***************************************************************************)
\* codeblock.firstElementChild?.firstElementChild?.firstElementChild
getCodeElFromJekyllRougeCodeblock(codeblock) ==
    firstElementChild(firstElementChild(firstElementChild(codeblock)))

getCodeElFromPreCodeblock(codeblock) ==
    IF Len(codeblock.kids) = 1 /\ firstElementChild(codeblock).tag = "CODE"
    THEN firstElementChild(codeblock)
    ELSE codeblock

\* the values of the CodeblockVariant enum
CodeblockVariant == {"legacy", "enhanced", "no-line-numbers"}

\* String.prototype.toLowerCase on the data-variant values considered
toLowerCase(str) ==
    CASE str = "Legacy" -> "legacy"
      [] str = "LEGACY" -> "legacy"
      [] OTHER -> str

getCodeblockVariant(codeblock, DEFAULT_CODEBLOCK_VARIANT) ==
    LET rawVariant == toLowerCase(codeblock.variant) IN
    IF rawVariant # "" /\ rawVariant \in CodeblockVariant THEN rawVariant
    ELSE DEFAULT_CODEBLOCK_VARIANT

shouldRetainLegacyCodeBlock(codeblock, DEFAULT_CODEBLOCK_VARIANT) ==
    \/ HasDescendantWithClass(codeblock, "language-mermaid")
    \/ getCodeblockVariant(codeblock, DEFAULT_CODEBLOCK_VARIANT) = "legacy"

\* the class names of the form language-<id> considered, and their <id>
LanguageOfClass(className) ==
    CASE className = "language-console" -> "console"
      [] className = "language-python" -> "python"
      [] className = "language-mermaid" -> "mermaid"
      [] OTHER -> ""

\* the <id> of the element's language-<id> class; "" where the code returns null
getCodeBlockLanguage(codeblockSrc) ==
    IF \E c \in codeblockSrc.cls : LanguageOfClass(c) # ""
    THEN LanguageOfClass(CHOOSE c \in codeblockSrc.cls : LanguageOfClass(c) # "")
    ELSE ""

\* `${slugify(title)}-${codeblockNumericId}`
createCodeBlockAnchorId(codeblockNumericId, title) ==
    [k |-> "anchor", b |-> codeblockNumericId, l |-> 0]

(***************************************************************************)
(* enhanceBlocks and useEnhancedCodeBlocks.  A pass is a function from the *)
(* document to the document; st is [doc, nextCodeBlockId].  The documents  *)
(* considered nest no container inside another container of the same       *)
(* shape, so a replacement leaves the paths of the other candidates valid. *)
(* AnchorJS (the title anchors) is an external library and is left out.    *)
(***************************************************************************)
getCodeEl(shape, codeblock) ==
    IF shape = "jekyll" THEN getCodeElFromJekyllRougeCodeblock(codeblock)
    ELSE getCodeElFromPreCodeblock(codeblock)

\* a plausible slip: the id is taken before the test for a retained block
EnhanceOne_CountsRetained(st, p, shape, DEFAULT_CODEBLOCK_VARIANT) ==
    LET codeblock == NodeAt(st.doc, p) IN
    IF shouldRetainLegacyCodeBlock(codeblock, DEFAULT_CODEBLOCK_VARIANT) THEN
        [doc |-> ReplaceAt(st.doc, p,
                           [codeblock EXCEPT !.cls = @ \cup {CODEBLOCK_PROCESSED_CLASS}]),
         nextCodeBlockId |-> st.nextCodeBlockId + 1]
    ELSE
    LET codeblockNumericId == st.nextCodeBlockId
        codeblockContentsNode == getCodeEl(shape, codeblock)
        title == codeblock.title
        anchorId == IF title # "" THEN createCodeBlockAnchorId(codeblockNumericId, title)
                    ELSE NoId IN
    IF p = <<>> \/ IsNull(codeblockContentsNode)
    THEN [st EXCEPT !.nextCodeBlockId = codeblockNumericId + 1]
    ELSE [doc |-> ReplaceAt(st.doc, p,
                    ElId("DIV", {"primer-spec-code-block"}, anchorId,
                         << createEnhancedCodeBlock(
                              [codeblockNumericId |-> codeblockNumericId,
                               rawContent |-> getCodeblockContents(codeblockContentsNode),
                               language |-> getCodeBlockLanguage(codeblock),
                               rawHighlightRanges |-> codeblock.highlight,
                               title |-> title,
                               anchorId |-> anchorId,
                               showLineNumbers |->
                                  getCodeblockVariant(codeblock, DEFAULT_CODEBLOCK_VARIANT)
                                      # "no-line-numbers"]) >>)),
          nextCodeBlockId |-> codeblockNumericId + 1]

\* the body of the forEach for the candidate at path p
EnhanceOne(st, p, shape, DEFAULT_CODEBLOCK_VARIANT) ==
    LET codeblock == NodeAt(st.doc, p) IN
    IF shouldRetainLegacyCodeBlock(codeblock, DEFAULT_CODEBLOCK_VARIANT) THEN
        [st EXCEPT !.doc = ReplaceAt(st.doc, p,
                              [codeblock EXCEPT !.cls = @ \cup {CODEBLOCK_PROCESSED_CLASS}])]
    ELSE
    LET codeblockNumericId == st.nextCodeBlockId
        skipped == [st EXCEPT !.nextCodeBlockId = codeblockNumericId + 1]
        codeblockContentsNode == getCodeEl(shape, codeblock) IN
    IF p = <<>> THEN skipped
    ELSE IF IsNull(codeblockContentsNode) THEN skipped
    ELSE
    LET title == codeblock.title
        anchorId == IF title # "" THEN createCodeBlockAnchorId(codeblockNumericId, title)
                    ELSE NoId
        block ==
            createEnhancedCodeBlock(
                [codeblockNumericId |-> codeblockNumericId,
                 rawContent |-> getCodeblockContents(codeblockContentsNode),
                 language |-> getCodeBlockLanguage(codeblock),
                 rawHighlightRanges |-> codeblock.highlight,
                 title |-> title,
                 anchorId |-> anchorId,
                 showLineNumbers |->
                    getCodeblockVariant(codeblock, DEFAULT_CODEBLOCK_VARIANT)
                        # "no-line-numbers"]) IN
    IF IsNull(block) THEN skipped
    ELSE [doc |-> ReplaceAt(st.doc, p,
                            ElId("DIV", {"primer-spec-code-block"}, anchorId, <<block>>)),
          nextCodeBlockId |-> codeblockNumericId + 1]

RECURSIVE ForEach(_, _, _, _)
ForEach(st, paths, shape, DEFAULT_CODEBLOCK_VARIANT) ==
    IF paths = <<>> THEN st
    ELSE ForEach(EnhanceOne(st, Head(paths), shape, DEFAULT_CODEBLOCK_VARIANT),
                 Tail(paths), shape, DEFAULT_CODEBLOCK_VARIANT)

RECURSIVE SelectPaths(_, _)
\* the candidates the filter keeps: no processed descendant, no processed
\* element at or above them
SelectPaths(root, paths) ==
    IF paths = <<>> THEN <<>>
    ELSE (IF /\ ~HasDescendantWithClass(NodeAt(root, Head(paths)), CODEBLOCK_PROCESSED_CLASS)
             /\ ~HasClosest(root, Head(paths), CODEBLOCK_PROCESSED_CLASS)
          THEN <<Head(paths)>> ELSE <<>>)
         \o SelectPaths(root, Tail(paths))

\* [doc, nextCodeBlockId] after enhanceBlocks(root.querySelectorAll(selector),
\* getCodeEl, startId)
enhanceBlocks(root, selector, shape, startId, DEFAULT_CODEBLOCK_VARIANT) ==
    ForEach([doc |-> root, nextCodeBlockId |-> startId],
            SelectPaths(root, querySelectorAll(root, selector)),
            shape, DEFAULT_CODEBLOCK_VARIANT)

\* the document after one run of the hook on mainElRef.current
useEnhancedCodeBlocks(root, DEFAULT_CODEBLOCK_VARIANT) ==
    LET rouge == enhanceBlocks(root, "div.highlighter-rouge", "jekyll", 0,
                               DEFAULT_CODEBLOCK_VARIANT)
        numCodeBlocks == rouge.nextCodeBlockId IN
    enhanceBlocks(rouge.doc, "pre", "pre", numCodeBlocks, DEFAULT_CODEBLOCK_VARIANT).doc

(***************************************************************************)
(* Inputs of the range parser                                              *)
(***************************************************************************)
\* tokens of a highlight spec: well formed, out of range, inverted, padded,
\* fractional, signed, truncated, and not numbers at all
TokenPool ==
    { <<>>, <<"0">>, <<"2">>, <<"9">>, <<" ", "3", " ">>,
      <<"1", "-", "3">>, <<"2", "-", "4">>, <<"3", "-", "1">>,
      <<"1", "-", "9">>, <<" ", "1", " ", "-", " ", "2", " ">>,
      <<"1", ".", "5">>, <<"2", ".">>, <<"1", ".", "5", "-", "3">>,
      <<"-", "1">>, <<"1", "-">>, <<"-">>, <<"1", "-", "2", "-", "3">>,
      <<"1", " ", "2">> }

TokenLists == UNION { [1..n -> TokenPool] : n \in 0..MaxTokens }

ParseIdle ==
    /\ rawHighlightRanges = <<>>
    /\ maxLineNumber = 0
    /\ highlightedLines = {}
    /\ parsePc = "idle"

ParseInputs ==
    /\ rawHighlightRanges \in { Join(ts, ",") : ts \in TokenLists }
    /\ maxLineNumber \in 0..MaxLineNumber
    /\ highlightedLines = {}
    /\ parsePc = "call"

\* one call of parseCodeHighlightRanges(rawHighlightRanges, maxLineNumber)
Parse ==
    /\ parsePc = "call"
    /\ highlightedLines' = parseCodeHighlightRanges(rawHighlightRanges, maxLineNumber)
    /\ parsePc' = "done"
    /\ UNCHANGED <<rawHighlightRanges, maxLineNumber>>
    /\ UNCHANGED <<contentVars, pageVars, selectVars, buttonVars>>

(***************************************************************************)
(* One code element: extraction, rendering, copy                           *)
(***************************************************************************)
Span(cls, s) == El("SPAN", cls, <<Text(s)>>)

\* pieces of highlighter output: console lines with a prompt, an output
\* line, a line with neither, spans holding several lines, an element that
\* is no span, a span with nested children
ChunkPool ==
    { << Span({"gp"}, <<"$">>), Span({"w"}, <<" ">>), Text(<<"l", "s", "\n">>) >>,
      << Span({"go"}, <<"f", "\n">>) >>,
      << Span({"gp"}, <<"$">>), Span({"w"}, <<" ">>), Span({"nb"}, <<"p">>),
         Text(<<"\n">>) >>,
      << Text(<<"m", "\n">>) >>,
      << Span({"s"}, <<"a", "\n", "b", "\n", "c">>) >>,
      << Span({"s"}, <<"a", "\n", "\n", "b", "\n">>) >>,
      << El("EM", {}, <<Text(<<"e">>)>>) >>,
      << El("SPAN", {"k"}, << Text(<<"x">>), Span({"n"}, <<"y", "\n", "z">>) >>) >> }

RECURSIVE Concat(_)
Concat(seqs) == IF seqs = <<>> THEN <<>> ELSE Head(seqs) \o Concat(Tail(seqs))

\* the <code> elements considered: a concatenation of at most MaxChunks pieces
CodeEls ==
    { El("CODE", {}, Concat(cs)) : cs \in UNION { [1..n -> ChunkPool] : n \in 0..MaxChunks } }

Languages == {LANGUAGE_CONSOLE, "python"}

ContentIdle ==
    /\ codeblockContentsEl = NullNode
    /\ blockLanguage = ""
    /\ codeblockContents = <<>>
    /\ enhancedCodeBlock = NullNode
    /\ clipboard = <<>>
    /\ contentPc = "idle"

ContentInputs ==
    /\ codeblockContentsEl \in CodeEls
    /\ blockLanguage \in Languages
    /\ codeblockContents = <<>>
    /\ enhancedCodeBlock = NullNode
    /\ clipboard = <<>>
    /\ contentPc = "extract"

\* codeblockContents = getCodeblockContents(codeblockContentsEl)
Extract ==
    /\ contentPc = "extract"
    /\ codeblockContents' = getCodeblockContents(codeblockContentsEl)
    /\ contentPc' = "render"
    /\ UNCHANGED <<codeblockContentsEl, blockLanguage, enhancedCodeBlock, clipboard>>
    /\ UNCHANGED <<parseVars, pageVars, selectVars, buttonVars>>

\* createEnhancedCodeBlock on the extracted contents, as block 0
Render ==
    /\ contentPc = "render"
    /\ enhancedCodeBlock' =
          createEnhancedCodeBlock([codeblockNumericId |-> 0, rawContent |-> codeblockContents,
                                   language |-> blockLanguage, rawHighlightRanges |-> <<>>,
                                   title |-> "", anchorId |-> NoId,
                                   showLineNumbers |-> TRUE])
    /\ contentPc' = "rendered"
    /\ UNCHANGED <<codeblockContentsEl, blockLanguage, codeblockContents, clipboard>>
    /\ UNCHANGED <<parseVars, pageVars, selectVars, buttonVars>>

\* a click on the block's copy button: copyLines writes the clipboard
Copy ==
    /\ contentPc = "rendered"
    /\ ~IsNull(enhancedCodeBlock)
    /\ HasDescendantWithClass(enhancedCodeBlock, "btn-octicon")
    /\ clipboard' = copyLines(enhancedCodeBlock, blockLanguage)
    /\ contentPc' = "copied"
    /\ UNCHANGED <<codeblockContentsEl, blockLanguage, codeblockContents, enhancedCodeBlock>>
    /\ UNCHANGED <<parseVars, pageVars, selectVars, buttonVars>>

(***************************************************************************)
(* The page and the runs of the hook                                       *)
(***************************************************************************)
\* the wrapped shape: div.highlighter-rouge > div.highlight > pre.highlight > inner
Wrapped(cls, variant, title, highlight, inner) ==
    [El("DIV", {"highlighter-rouge"} \cup cls,
        << El("DIV", {"highlight"}, << El("PRE", {"highlight"}, inner) >>) >>)
     EXCEPT !.variant = variant, !.title = title, !.highlight = highlight]

TwoLines == El("CODE", {}, << Span({"s"}, <<"a", "\n", "b">>) >>)
OneLine == El("CODE", {}, << Text(<<"x", "\n">>) >>)

\* the code containers a page may hold: wrapped and bare, enhanced by
\* default, legacy by attribute, without line numbers and titled, console,
\* mermaid, wrapped without the <code> level, wrapped with nothing inside,
\* and a <pre> with nothing inside
Sources ==
    { Wrapped({"language-python"}, "", "", <<"2">>, <<TwoLines>>),
      Wrapped({"language-python"}, "Legacy", "", <<>>, <<TwoLines>>),
      Wrapped({"language-console"}, "no-line-numbers", "T", <<>>,
              << El("CODE", {}, << Span({"gp"}, <<"$">>), Text(<<" ", "l", "\n">>),
                                   Span({"go"}, <<"f", "\n">>) >>) >>),
      Wrapped({}, "", "", <<>>, << Text(<<"x", "\n">>) >>),
      El("DIV", {"highlighter-rouge"}, <<>>),
      El("PRE", {}, <<OneLine>>),
      El("PRE", {}, <<>>),
      El("PRE", {}, << El("CODE", {"language-mermaid"}, <<Text(<<"g">>)>>) >>) }

Pages ==
    { El("MAIN", {}, blocks) : blocks \in UNION { [1..n -> Sources] : n \in 0..MaxBlocks } }

PageIdle ==
    /\ mainEl = NullNode
    /\ mainElBefore = NullNode
    /\ runsSinceChange = 0
    /\ defaultVariant = "enhanced"

PageInputs ==
    /\ mainEl \in Pages
    /\ mainElBefore = mainEl
    /\ runsSinceChange = 0
    /\ defaultVariant \in CodeblockVariant

\* one run of useEnhancedCodeBlocks(mainElRef)
RunHook ==
    /\ runsSinceChange < MaxRuns
    /\ mainElBefore' = mainEl
    /\ mainEl' = useEnhancedCodeBlocks(mainEl, defaultVariant)
    /\ runsSinceChange' = runsSinceChange + 1
    /\ UNCHANGED defaultVariant
    /\ UNCHANGED <<parseVars, contentVars, selectVars, buttonVars>>

\* the page content changes: a new code container is appended to <main>
AddBlock ==
    /\ Len(mainEl.kids) < MaxBlocks
    /\ \E src \in Sources : mainEl' = [mainEl EXCEPT !.kids = Append(@, src)]
    /\ mainElBefore' = mainEl'
    /\ runsSinceChange' = 0
    /\ UNCHANGED defaultVariant
    /\ UNCHANGED <<parseVars, contentVars, selectVars, buttonVars>>

(***************************************************************************)
(* Drag selection: selectLines and the pointer handlers                    *)
(***************************************************************************)
\* document.getElementById(id): <<path>> of the first element with that id
\* in document order, <<>> for null
getElementById(root, id) ==
    LET found == SelectSeq(AllPaths(root), LAMBDA p : NodeAt(root, p).nid = id) IN
    IF found = <<>> THEN <<>> ELSE <<Head(found)>>

\* the browser selection after selectLines(codeblockId, startLine_, endLine_),
\* sel being the selection before it
selectLines(root, sel, codeblockNumericId, startLine_, endLine_) ==
    LET startLine == IF startLine_ > endLine_ THEN endLine_ ELSE startLine_
        endLine == IF startLine_ > endLine_ THEN startLine_ ELSE endLine_
        startNode == getElementById(root, LineId("LC", codeblockNumericId, startLine))
        endNode == getElementById(root, LineId("LC", codeblockNumericId, endLine)) IN
    IF startNode = <<>> \/ endNode = <<>> THEN sel
    ELSE << [startNode |-> startNode[1], startOffset |-> 0,
             endNode |-> endNode[1],
             endOffset |-> Len(NodeAt(root, endNode[1]).kids)] >>

\* el.id.match(/^primer-spec-code-block-(?:\d+)-L(?:C|R)?(\d+)$/)
MatchesLineId(el) == el.nid.k \in {"L", "LC", "LR"}

RECURSIVE HoveredLine(_, _)
\* the walk up from the event target to the <table>: <<line>> for the first
\* element whose id names a line, <<>> when the walk ends without one
HoveredLine(root, p) ==
    LET el == NodeAt(root, p) IN
    IF p = <<>> \/ el.tag = "TABLE" THEN <<>>
    ELSE IF MatchesLineId(el) THEN <<el.nid.l>>
    ELSE HoveredLine(root, SubSeq(p, 1, Len(p) - 1))

\* a plausible slip: the handler does not test that a drag is in progress
onMouseOver_NoGuard(root, anchor, sel, codeblockNumericId, target) ==
    LET hovered == HoveredLine(root, target) IN
    IF hovered # <<>>
    THEN selectLines(root, sel, codeblockNumericId,
                     IF anchor = <<>> THEN hovered[1] ELSE anchor[1], hovered[1])
    ELSE sel

\* the selection after the <tbody>'s onMouseOver for an event on target
onMouseOver(root, anchor, sel, codeblockNumericId, target) ==
    IF anchor # <<>> THEN
        LET hovered == HoveredLine(root, target) IN
        IF hovered # <<>>
        THEN selectLines(root, sel, codeblockNumericId, anchor[1], hovered[1])
        ELSE sel
    ELSE sel

\* the enhanced block (its path) that the element at p lies in
RECURSIVE BlockOf(_, _)
BlockOf(root, p) ==
    IF p = <<>> THEN <<>>
    ELSE IF NodeAt(root, p).nid.k = "block" THEN p
    ELSE BlockOf(root, SubSeq(p, 1, Len(p) - 1))

\* the elements a pointer event of a <tbody> can have as its target: the
\* <tbody> and the elements inside it
RowTargets(root) ==
    { p \in PathSet(root) :
        /\ IsElement(NodeAt(root, p))
        /\ \E k \in 1..Len(p) : NodeAt(root, SubSeq(p, 1, k)).tag = "TBODY" }

\* the line-number cells
NumberCells(root) == { p \in PathSet(root) : NodeAt(root, p).nid.k = "L" }

NoEvent == [type |-> "none", line |-> <<>>]

\* the pointer moves onto an element of some block's rows (it was over no
\* rows, or over rows of the same block): onMouseOver of that <tbody>
MouseOver ==
    \E target \in RowTargets(mainEl) :
        /\ pointerIn \in {<<>>, BlockOf(mainEl, target)}
        /\ pointerIn' = BlockOf(mainEl, target)
        /\ selection' = onMouseOver(mainEl, mouseDownStartLine, selection,
                                    NodeAt(mainEl, BlockOf(mainEl, target)).nid.b, target)
        /\ lastEvent' = [type |-> "mouseover", line |-> HoveredLine(mainEl, target)]
        /\ UNCHANGED mouseDownStartLine
        /\ UNCHANGED <<parseVars, contentVars, pageVars, buttonVars>>

\* the button goes down on a line-number cell under the pointer: onMouseDown
MouseDown ==
    \E cell \in NumberCells(mainEl) :
        LET lineNumber == NodeAt(mainEl, cell).nid.l IN
        /\ pointerIn = BlockOf(mainEl, cell)
        /\ mouseDownStartLine' = <<lineNumber>>
        /\ selection' = selectLines(mainEl, selection, NodeAt(mainEl, cell).nid.b,
                                    lineNumber, lineNumber)
        /\ lastEvent' = [type |-> "mousedown", line |-> <<lineNumber>>]
        /\ UNCHANGED pointerIn
        /\ UNCHANGED <<parseVars, contentVars, pageVars, buttonVars>>

\* the button is released over the rows: onMouseUp
MouseUp ==
    /\ pointerIn # <<>>
    /\ mouseDownStartLine' = <<>>
    /\ lastEvent' = [type |-> "mouseup", line |-> <<>>]
    /\ UNCHANGED <<selection, pointerIn>>
    /\ UNCHANGED <<parseVars, contentVars, pageVars, buttonVars>>

\* the pointer leaves the rows: onMouseLeave
MouseLeave ==
    /\ pointerIn # <<>>
    /\ mouseDownStartLine' = <<>>
    /\ pointerIn' = <<>>
    /\ lastEvent' = [type |-> "mouseleave", line |-> <<>>]
    /\ UNCHANGED selection
    /\ UNCHANGED <<parseVars, contentVars, pageVars, buttonVars>>

\* the containers of the pages the pointer moves over: two lines with a
\* highlight, console lines with a prompt, one line
SelectSources ==
    { Wrapped({"language-python"}, "", "", <<"2">>, <<TwoLines>>),
      Wrapped({"language-console"}, "", "", <<>>,
              << El("CODE", {}, << Span({"gp"}, <<"$">>), Span({"w"}, <<" ">>),
                                   Text(<<"l", "\n">>), Span({"go"}, <<"f", "\n">>) >>) >>),
      El("PRE", {}, <<OneLine>>) }

\* the pages before the first run of the hook
SourcePages ==
    { El("MAIN", {}, blocks) :
        blocks \in UNION { [1..n -> SelectSources] : n \in 1..MaxSelectBlocks } }

\* a container appended to <main>, where there is room for one
Grown(pages) ==
    { [pg EXCEPT !.kids = Append(@, src)] :
        pg \in { q \in pages : Len(q.kids) < MaxSelectBlocks }, src \in SelectSources }

RECURSIVE EnhancedPages(_)
\* the pages after the given number of runs of the hook, a container having
\* been appended to <main> before each run but the first
EnhancedPages(runs) ==
    { useEnhancedCodeBlocks(pg, "enhanced") :
        pg \in IF runs = 1 THEN SourcePages ELSE Grown(EnhancedPages(runs - 1)) }

SelectIdle ==
    /\ mouseDownStartLine = <<>>
    /\ selection = <<>>
    /\ pointerIn = <<>>
    /\ lastEvent = NoEvent

SelectInputs ==
    /\ mainEl \in UNION { EnhancedPages(runs) : runs \in 1..2 }
    /\ mainElBefore = mainEl
    /\ runsSinceChange = 1
    /\ defaultVariant = "enhanced"
    /\ SelectIdle

\* the element at p taken out of its parent
RemoveAt(root, p) ==
    LET parent == SubSeq(p, 1, Len(p) - 1)
        k == p[Len(p)] IN
    ReplaceAt(root, parent,
              [NodeAt(root, parent) EXCEPT
                  !.kids = SubSeq(@, 1, k - 1) \o SubSeq(@, k + 1, Len(@))])

\* pages after one run of the hook from which the content node of one line
\* has since been taken out by another script: the case selectLines' test
\* for a missing start or end node is written for
DamagedPages ==
    UNION { { RemoveAt(pg, p) : p \in { q \in PathSet(pg) : NodeAt(pg, q).nid.k = "LC" } } :
            pg \in EnhancedPages(1) }

DamagedInputs ==
    /\ mainEl \in DamagedPages
    /\ mainElBefore = mainEl
    /\ runsSinceChange = 1
    /\ defaultVariant = "enhanced"
    /\ SelectIdle

(***************************************************************************)
(* The copy button: onClick and the callback it schedules                  *)
(***************************************************************************)
\* the path of the block's copy button
ButtonPath(codeblock) ==
    CHOOSE p \in PathSet(codeblock) : NodeAt(codeblock, p).tag = "BUTTON"

\* <i class="fas fa-check" />, a new node at each evaluation: the icons carry
\* no id attribute, nid stands for the identity of the node (n-th click)
CheckIcon(n) ==
    ElId("I", {"fas", "fa-check"}, [k |-> "node", b |-> n, l |-> 0], <<>>)

\* the elements of the button a click can land on: the button (<<>>) and the
\* icon it currently holds (<<icon>>)
ClickTargets(btn) == {<<>>} \cup { <<btn.kids[i]>> : i \in 1..Len(btn.kids) }

\* e.target, then its parentElement when it is an <i>: <<>> for null (the
\* icon was taken out of the button in the meantime), else <<the button>>
FetchButton(btn, target) ==
    IF target = <<>> THEN <<btn>>
    ELSE IF \E i \in 1..Len(btn.kids) : btn.kids[i] = target[1] THEN <<btn>>
    ELSE <<>>

\* code elements of more than one line: only their blocks get a copy button
ButtonCodeEls ==
    { El("CODE", {}, << Span({"gp"}, <<"$">>), Span({"w"}, <<" ">>), Text(<<"l", "s", "\n">>),
                        Span({"go"}, <<"f", "\n">>) >>),
      El("CODE", {}, << Span({"s"}, <<"a", "\n", "b">>) >>) }

ButtonIdle ==
    /\ clickHandlers = <<>>
    /\ timeouts = <<>>
    /\ clickCount = 0

\* a rendered block whose copy button has not been clicked yet
ButtonInputs ==
    /\ codeblockContentsEl \in ButtonCodeEls
    /\ blockLanguage \in Languages
    /\ codeblockContents = getCodeblockContents(codeblockContentsEl)
    /\ enhancedCodeBlock =
          createEnhancedCodeBlock([codeblockNumericId |-> 0, rawContent |-> codeblockContents,
                                   language |-> blockLanguage, rawHighlightRanges |-> <<>>,
                                   title |-> "", anchorId |-> NoId,
                                   showLineNumbers |-> TRUE])
    /\ clipboard = <<>>
    /\ contentPc = "rendered"
    /\ ButtonIdle

\* a click on the button or on its icon: onClick runs up to the await in
\* copyLines, with the text to write already computed
Click ==
    \E target \in ClickTargets(NodeAt(enhancedCodeBlock, ButtonPath(enhancedCodeBlock))) :
        /\ clickCount < MaxClicks
        /\ clickCount' = clickCount + 1
        /\ clickHandlers' = Append(clickHandlers,
                                   [target |-> target,
                                    text |-> copyLines(enhancedCodeBlock, blockLanguage),
                                    n |-> clickCount + 1])
        /\ UNCHANGED <<timeouts, contentVars>>
        /\ UNCHANGED <<parseVars, pageVars, selectVars>>

\* navigator.clipboard.writeText resolved for a suspended handler: steps (2)
\* and (3) of onClick
ClipboardWritten ==
    \E i \in 1..Len(clickHandlers) :
        LET h == clickHandlers[i]
            path == ButtonPath(enhancedCodeBlock)
            btn == FetchButton(NodeAt(enhancedCodeBlock, path), h.target) IN
        /\ clickHandlers' = SubSeq(clickHandlers, 1, i - 1)
                              \o SubSeq(clickHandlers, i + 1, Len(clickHandlers))
        /\ clipboard' = h.text
        /\ IF btn = <<>>
           THEN UNCHANGED <<enhancedCodeBlock, timeouts>>
           ELSE LET originalLabel == btn[1].label
                    originalIcon == btn[1].kids[1] IN
                /\ enhancedCodeBlock' =
                      ReplaceAt(enhancedCodeBlock, path,
                                [btn[1] EXCEPT !.label = "Copied!",
                                               !.kids = <<CheckIcon(h.n)>>])
                /\ timeouts' = Append(timeouts, [originalLabel |-> originalLabel,
                                                 originalIcon |-> originalIcon])
        /\ UNCHANGED <<codeblockContentsEl, blockLanguage, codeblockContents, contentPc, clickCount>>
        /\ UNCHANGED <<parseVars, pageVars, selectVars>>

\* navigator.clipboard.writeText rejected: the handler ends at the await
ClipboardRejected ==
    \E i \in 1..Len(clickHandlers) :
        /\ clickHandlers' = SubSeq(clickHandlers, 1, i - 1)
                              \o SubSeq(clickHandlers, i + 1, Len(clickHandlers))
        /\ UNCHANGED <<timeouts, clickCount, contentVars>>
        /\ UNCHANGED <<parseVars, pageVars, selectVars>>

\* 2000 ms after the oldest pending setTimeout: its callback (btn.blur()
\* moves the focus, which is not part of the state)
TimeoutFires ==
    /\ timeouts # <<>>
    /\ LET t == Head(timeouts)
           path == ButtonPath(enhancedCodeBlock)
           btn == NodeAt(enhancedCodeBlock, path) IN
       enhancedCodeBlock' =
           ReplaceAt(enhancedCodeBlock, path,
                     [btn EXCEPT !.label = t.originalLabel,
                                 !.kids = <<t.originalIcon>>])
    /\ timeouts' = Tail(timeouts)
    /\ UNCHANGED <<codeblockContentsEl, blockLanguage, codeblockContents, clipboard, contentPc>>
    /\ UNCHANGED <<clickHandlers, clickCount>>
    /\ UNCHANGED <<parseVars, pageVars, selectVars>>

(***************************************************************************)
(* Specifications                                                          *)
(***************************************************************************)
InitParse == ParseInputs /\ ContentIdle /\ PageIdle /\ SelectIdle /\ ButtonIdle
NextParse == Parse
SpecParse == InitParse /\ [][NextParse]_vars

Init == PageInputs /\ ParseIdle /\ ContentIdle /\ SelectIdle /\ ButtonIdle
Next == RunHook \/ AddBlock
Spec == Init /\ [][Next]_vars

InitContent == ContentInputs /\ ParseIdle /\ PageIdle /\ SelectIdle /\ ButtonIdle

InitSelect == SelectInputs /\ ParseIdle /\ ContentIdle /\ ButtonIdle
NextSelect == MouseOver \/ MouseDown \/ MouseUp \/ MouseLeave
SpecSelect == InitSelect /\ [][NextSelect]_vars

InitDamaged == DamagedInputs /\ ParseIdle /\ ContentIdle /\ ButtonIdle
SpecDamaged == InitDamaged /\ [][NextSelect]_vars

NextContent == Extract \/ Render \/ Copy
SpecContent == InitContent /\ [][NextContent]_vars

InitCopyButton == ButtonInputs /\ ParseIdle /\ PageIdle /\ SelectIdle
NextCopyButton == Click \/ ClipboardWritten \/ ClipboardRejected \/ TimeoutFires
SpecCopyButton == InitCopyButton /\ [][NextCopyButton]_vars

(***************************************************************************)
(* Claims about the range parser                                           *)
(***************************************************************************)
\* a token that is a single integer: digits only, white space around allowed
IsIntegerToken(tok) == Trim(tok) # <<>> /\ AllDigits(Trim(tok))

\* what the stated rule lets one token contribute, in whole line numbers
StatedContribution(tok, maxLine) ==
    IF IsIntegerToken(tok) THEN
        LET n == DigitsVal(Trim(tok)) IN
        IF 1 <= n /\ n <= maxLine THEN {n} ELSE {}
    ELSE
        LET parts == Split(Trim(tok), "-") IN
        IF Len(parts) = 2 /\ IsIntegerToken(parts[1]) /\ IsIntegerToken(parts[2]) THEN
            LET lower == DigitsVal(Trim(parts[1]))
                upper == DigitsVal(Trim(parts[2])) IN
            IF 1 <= lower /\ upper <= maxLine /\ lower <= upper
            THEN lower..upper ELSE {}
        ELSE {}

StatedRanges(raw, maxLine) ==
    IF raw = <<>> THEN {}
    ELSE LET toks == Split(raw, ",") IN
         UNION { StatedContribution(toks[i], maxLine) : i \in 1..Len(toks) }

\* C6: every member of the set parseCodeHighlightRanges returns lies within
\* [1, lineCount], whatever the highlight spec (malformed, empty, negative,
\* zero, inverted, out of range) and whatever the line count.
C6_MembersWithinBounds ==
    parsePc = "done" =>
        \A n \in highlightedLines : Unit <= n /\ n <= maxLineNumber * Unit

\* C6 witness: a parse that kept some line while dropping an out-of-range or
\* malformed token of the same spec.
C6_Witness ==
    /\ parsePc = "done"
    /\ highlightedLines # {}
    /\ \E i \in 1..Len(Split(rawHighlightRanges, ",")) :
          LET tok == Split(rawHighlightRanges, ",")[i] IN
          tok # <<>> /\ RangeContribution(tok, maxLineNumber) = {}

\* C7: parseCodeHighlightRanges returns exactly the union, over the
\* comma-separated tokens, of {n} for a single-integer token n in [1, max] and
\* of lower..upper for a token lower-upper with both ends in [1, max] and
\* lower <= upper; every other token contributes nothing.
C7_ExactlyStatedRanges ==
    parsePc = "done" =>
        highlightedLines =
            { n * Unit : n \in StatedRanges(rawHighlightRanges, maxLineNumber) }

(***************************************************************************)
(* Claims about content extraction and copy                                *)
(***************************************************************************)
\* the tag depth after each token of a line never goes below 0 and ends at 0
RECURSIVE DepthOk(_, _)
DepthOk(toks, depth) ==
    IF toks = <<>> THEN depth = 0
    ELSE IF Head(toks).t = "open" THEN DepthOk(Tail(toks), depth + 1)
    ELSE IF Head(toks).t = "close" THEN depth > 0 /\ DepthOk(Tail(toks), depth - 1)
    ELSE DepthOk(Tail(toks), depth)

NonEmptyCount(pieces) == Cardinality({ i \in 1..Len(pieces) : pieces[i] # <<>> })

\* the children of the code element are spans and text nodes
OnlySpansAndText(el) ==
    \A i \in 1..Len(el.kids) : el.kids[i].tag \in {"SPAN", "#text"}

\* C10: for a code element whose children are spans and text nodes, every
\* per-line fragment of getCodeblockContents' output is self-contained (each
\* tag opened in a line is closed in that line), and a span whose text has n
\* non-empty newline-separated segments yields n fragments, each a clone of
\* that span.
C10_LinesSelfContained ==
    (contentPc \in {"render", "rendered", "copied"} /\ OnlySpansAndText(codeblockContentsEl)) =>
        LET lines == Split(codeblockContents, NewlineTok)
            clones == { cloneNode(codeblockContentsEl.kids[i]) :
                          i \in { j \in 1..Len(codeblockContentsEl.kids) : codeblockContentsEl.kids[j].tag = "SPAN" } } IN
        /\ \A i \in 1..Len(lines) : DepthOk(lines[i], 0)
        /\ \A i \in 1..Len(codeblockContents) :
              codeblockContents[i].t = "open" => codeblockContents[i].el \in clones
        /\ \A e \in clones :
              Cardinality({ i \in 1..Len(codeblockContents) :
                              codeblockContents[i].t = "open" /\ codeblockContents[i].el = e })
              = Cardinality({ p \in { <<j, k>> : j \in 1..Len(codeblockContentsEl.kids),
                                                 k \in 1..Len(codeblockContents) + 1 } :
                                /\ cloneNode(codeblockContentsEl.kids[p[1]]) = e
                                /\ codeblockContentsEl.kids[p[1]].tag = "SPAN"
                                /\ LET segs == Split(textContent(codeblockContentsEl.kids[p[1]]), "\n") IN
                                   p[2] <= Len(segs) /\ segs[p[2]] # <<>> })

\* C10 witness: a code element whose only child is one span holding
\* "a\nb\nc" has been extracted into exactly 3 lines, each the span's clone
\* around one letter.
C10_Witness ==
    /\ contentPc = "render"
    /\ codeblockContentsEl.kids = << Span({"s"}, <<"a", "\n", "b", "\n", "c">>) >>
    /\ LET lines == ContentLines(codeblockContents) IN
       /\ Len(lines) = 3
       /\ \A i \in 1..3 :
             /\ Len(lines[i]) = 3
             /\ lines[i][1] = OpenTok(codeblockContentsEl.kids[1])
             /\ lines[i][3] = CloseTok

\* a line as the claim reads it: its nodes, whether it is an output line,
\* and its text without the leading prompt
IsOutputLine(nodes) == HasDescendantWithClass(El("TD", {}, nodes), "go")

TextWithoutPrompt(nodes) ==
    IF nodes # <<>> /\ nodes[1].tag = "SPAN" /\ "gp" \in nodes[1].cls
    THEN TextOfAll(SubSeq(nodes, ExcludedPrefix(nodes, 1) + 1, Len(nodes)))
    ELSE TextOfAll(nodes)

\* the text the claim says a console copy yields (lines without text leave
\* no empty entry, as in the code)
StatedConsoleCopy(raw) ==
    LET lines == ContentLines(raw) IN
    Join(DropEmpty([i \in 1..Len(lines) |->
                       IF IsOutputLine(ParseHTML(lines[i])) THEN <<>>
                       ELSE TextWithoutPrompt(ParseHTML(lines[i]))]), "\n")

\* C8: for a console block, copy writes the newline-joined text, in line
\* order, of every line that is not an output line, each without its leading
\* prompt, whether or not the line starts with a prompt.
C8_ConsoleCopyAllNonOutputLines ==
    (contentPc = "copied" /\ blockLanguage = LANGUAGE_CONSOLE) =>
        clipboard = StatedConsoleCopy(codeblockContents)

\* the code element's text content apart from one trailing newline
CodeText(el) ==
    LET text == textContent(el) IN
    IF text # <<>> /\ text[Len(text)] = "\n" THEN SubSeq(text, 1, Len(text) - 1) ELSE text

\* the text of each rendered line of the block
RenderedLineTexts(codeblock) ==
    LET lines == DescendantsWithClass(codeblock, CODEBLOCK_LINE_CLASS) IN
    [i \in 1..Len(lines) |-> textContent(lines[i])]

\* C15: extraction loses no code text, whatever the kinds of the code
\* element's children: the texts of the rendered lines joined by newlines are
\* the element's text content apart from one trailing newline, and there are
\* as many lines as that text has newline-delimited segments (none for no text).
C15_NoCodeTextLost ==
    (contentPc \in {"rendered", "copied"}) =>
        LET stated == CodeText(codeblockContentsEl)
            texts == RenderedLineTexts(enhancedCodeBlock) IN
        /\ Join(texts, "\n") = stated
        /\ Len(texts) = IF stated = <<>> THEN 0 ELSE Len(Split(stated, "\n"))

(***************************************************************************)
(* Claims about the runs of the hook                                       *)
(***************************************************************************)
\* the paths of the enhanced blocks (the elements with id primer-spec-code-block-N)
EnhancedBlockPaths(root) == { p \in PathSet(root) : NodeAt(root, p).nid.k = "block" }

\* the element at p is a code container the pass takes up: it matches the
\* shape's selector, holds and lies under no processed element, and is not
\* retained as legacy
Eligible(root, p, shape) ==
    /\ Matches(NodeAt(root, p), IF shape = "jekyll" THEN "div.highlighter-rouge" ELSE "pre")
    /\ ~HasDescendantWithClass(NodeAt(root, p), CODEBLOCK_PROCESSED_CLASS)
    /\ ~HasClosest(root, p, CODEBLOCK_PROCESSED_CLASS)
    /\ ~shouldRetainLegacyCodeBlock(NodeAt(root, p), defaultVariant)

\* C1: a second run of the hook over the same root, with no content change
\* in between, changes nothing: the document after it equals the document
\* before it.
C1_SecondRunChangesNothing ==
    runsSinceChange >= 2 => mainEl = mainElBefore

\* C2: after any sequence of runs, runs after new containers were added
\* included, no two enhanced blocks in the document carry the same numeric id.
C2_BlockIdsUnique ==
    \A p, q \in EnhancedBlockPaths(mainEl) :
        NodeAt(mainEl, p).nid.b = NodeAt(mainEl, q).nid.b => p = q

\* the container at p before the run, when it is eligible, has its code
\* element and lies in no other container, is an enhanced block after the run
OtherEligibleEnhanced(p) ==
    \A shape \in {"jekyll", "pre"} :
        (/\ Eligible(mainElBefore, p, shape)
         /\ ~IsNull(getCodeEl(shape, NodeAt(mainElBefore, p)))
         /\ \A k \in 0..(Len(p) - 1) :
               ~Matches(NodeAt(mainElBefore, SubSeq(p, 1, k)), "div.highlighter-rouge"))
        => "primer-spec-code-block" \in NodeAt(mainEl, p).cls

\* C5: a wrapped container whose descent to the code element is incomplete is
\* left as it was by the whole run (no part of it is replaced, in either
\* pass), and every other eligible container of the run is enhanced.
C5_MalformedLeftUnenhanced ==
    runsSinceChange >= 1 =>
        \A p \in PathSet(mainElBefore) :
            /\ (/\ Eligible(mainElBefore, p, "jekyll")
                /\ IsNull(getCodeElFromJekyllRougeCodeblock(NodeAt(mainElBefore, p))))
               => NodeAt(mainEl, p) = NodeAt(mainElBefore, p)
            /\ OtherEligibleEnhanced(p)

\* C9: a container whose extracted content has zero lines is skipped: the
\* run leaves it in the document unreplaced.
C9_EmptyBlockSkipped ==
    runsSinceChange >= 1 =>
        \A p \in PathSet(mainElBefore) :
            \A shape \in {"jekyll", "pre"} :
                (/\ Eligible(mainElBefore, p, shape)
                 /\ ~IsNull(getCodeEl(shape, NodeAt(mainElBefore, p)))
                 /\ ContentLines(getCodeblockContents(
                        getCodeEl(shape, NodeAt(mainElBefore, p)))) = <<>>)
                => NodeAt(mainEl, p) = NodeAt(mainElBefore, p)

\* the children of <main> before the run
Containers == 1..Len(mainElBefore.kids)

\* the k-th child was a code container of one of the two shapes that matches
\* the retained-legacy predicate
RetainedBlock(k) ==
    /\ \/ Matches(mainElBefore.kids[k], "div.highlighter-rouge")
       \/ Matches(mainElBefore.kids[k], "pre")
    /\ shouldRetainLegacyCodeBlock(mainElBefore.kids[k], defaultVariant)

\* the k-th child taken out of root
WithoutKid(root, k) ==
    [root EXCEPT !.kids = SubSeq(@, 1, k - 1) \o SubSeq(@, k + 1, Len(@))]

\* C11: a block that matches the retained-legacy predicate (legacy by its
\* attribute or by the global default, or holding a mermaid block) is left as
\* it was by the run but for the processed marker class it gains, and it
\* consumes no block id: the rest of the page comes out as it does from the
\* page without that block.
C11_RetainedLegacyUntouched ==
    runsSinceChange >= 1 =>
        \A k \in Containers :
            RetainedBlock(k) =>
                /\ mainEl.kids[k] = [mainElBefore.kids[k]
                                        EXCEPT !.cls = @ \cup {CODEBLOCK_PROCESSED_CLASS}]
                /\ WithoutKid(mainEl, k)
                     = useEnhancedCodeBlocks(WithoutKid(mainElBefore, k), defaultVariant)

\* C11 witness: a run took up a retained block not yet marked, and the block
\* enhanced after it in the same run got id 0.
C11_Witness ==
    /\ runsSinceChange >= 1
    /\ \E k \in Containers :
          /\ RetainedBlock(k)
          /\ CODEBLOCK_PROCESSED_CLASS \notin mainElBefore.kids[k].cls
          /\ CODEBLOCK_PROCESSED_CLASS \in mainEl.kids[k].cls
          /\ \E j \in Containers :
                /\ j > k
                /\ "primer-spec-code-block" \notin mainElBefore.kids[j].cls
                /\ "primer-spec-code-block" \in mainEl.kids[j].cls
                /\ mainEl.kids[j].kids[1].nid = BlockId(0)

\* the blocks the latest run enhanced
NewBlockPaths == EnhancedBlockPaths(mainEl) \ EnhancedBlockPaths(mainElBefore)

\* the container the new block at p was made from was of the wrapped shape
FromWrapped(p) ==
    Matches(NodeAt(mainElBefore, SubSeq(p, 1, Len(p) - 1)), "div.highlighter-rouge")

\* the place of the element at p in document order
Position(root, p) ==
    CHOOSE i \in 1..Len(AllPaths(root)) : AllPaths(root)[i] = p

\* C14: the k blocks one run enhances have exactly the ids 0..k-1 (a skipped
\* block uses up no id), in document order within each shape, every block
\* made from a wrapped container before every block made from a bare <pre>.
C14_IdsDenseAndOrdered ==
    (runsSinceChange >= 1) =>
        /\ { NodeAt(mainEl, p).nid.b : p \in NewBlockPaths }
              = 0..(Cardinality(NewBlockPaths) - 1)
        /\ \A p, q \in NewBlockPaths :
              /\ (FromWrapped(p) /\ ~FromWrapped(q))
                    => NodeAt(mainEl, p).nid.b < NodeAt(mainEl, q).nid.b
              /\ (FromWrapped(p) = FromWrapped(q)
                    /\ Position(mainEl, p) < Position(mainEl, q))
                    => NodeAt(mainEl, p).nid.b < NodeAt(mainEl, q).nid.b

(***************************************************************************)
(* Claims about drag selection                                             *)
(***************************************************************************)
\* C4: the anchor mouseDownStartLine is absent initially, is the pressed
\* line after a pointer-down on a line-number cell, and is absent after a
\* pointer-up in the block or after the pointer left the rows; a pointer-move
\* handled while the anchor is absent changes neither the anchor nor the
\* browser selection.
C4_AnchorLifecycle ==
    /\ [](lastEvent.type = "none" => mouseDownStartLine = <<>>)
    /\ [](lastEvent.type = "mousedown" => mouseDownStartLine = lastEvent.line)
    /\ [](lastEvent.type \in {"mouseup", "mouseleave"} => mouseDownStartLine = <<>>)
    /\ [][(lastEvent'.type = "mouseover" /\ mouseDownStartLine = <<>>)
            => (mouseDownStartLine' = <<>> /\ selection' = selection)]_vars

\* C4 witness: a line was selected by a pointer-down, the pointer-up cleared
\* the anchor, and a pointer-move over another line has been handled since:
\* the selection is still the pressed line alone.
C4_Witness ==
    /\ lastEvent.type = "mouseover"
    /\ lastEvent.line # <<>>
    /\ mouseDownStartLine = <<>>
    /\ selection # <<>>
    /\ selection[1].startNode = selection[1].endNode
    /\ NodeAt(mainEl, selection[1].startNode).nid.l # lastEvent.line[1]
    /\ NodeAt(mainEl, selection[1].startNode).nid.b
         = NodeAt(mainEl, pointerIn).nid.b

\* bp is a prefix of p
IsPrefix(bp, p) == Len(bp) <= Len(p) /\ SubSeq(p, 1, Len(bp)) = bp

\* the content node of line n of the block at bp: the element of the block
\* that carries the line's content id
ContentNode(root, bp, n) ==
    CHOOSE p \in PathSet(root) :
        /\ IsPrefix(bp, p)
        /\ NodeAt(root, p).nid = LineId("LC", NodeAt(root, bp).nid.b, n)

\* the single range from the start of the content node of the lower line to
\* the end of the content node of the higher line
StatedSelection(root, bp, a, b) ==
    LET lo == IF a <= b THEN a ELSE b
        hi == IF a <= b THEN b ELSE a
        last == ContentNode(root, bp, hi) IN
    << [startNode |-> ContentNode(root, bp, lo), startOffset |-> 0,
        endNode |-> last, endOffset |-> Len(NodeAt(root, last).kids)] >>

\* C12: for every block and every pair of its lines a, b, a drag from a to b
\* (selectLines(id, a, b)) and a drag from b to a (selectLines(id, b, a))
\* leave the same selection: the single range from the start of the content
\* node of line min(a, b) to the end of the content node of line max(a, b).
C12_SelectionDirectionNormalised ==
    (lastEvent.type = "mouseover" /\ lastEvent.line # <<>> /\ mouseDownStartLine # <<>>)
        => selection = StatedSelection(mainEl, pointerIn, mouseDownStartLine[1],
                                       lastEvent.line[1])

\* document.getElementById finds no content node for line n of the block
ContentNodeMissing(root, codeblockNumericId, n) ==
    getElementById(root, LineId("LC", codeblockNumericId, n)) = <<>>

\* C13: when the content node of the start or of the end line cannot be
\* found the gesture step leaves the browser selection as it was, and a
\* pointer-down whose selection is aborted leaves no anchor behind (the
\* controller is not dragging with an anchor that has no selectable line).
C13_AbortLeavesNoPartialState ==
    [][LET codeblockNumericId == NodeAt(mainEl, pointerIn').nid.b IN
       /\ (/\ lastEvent'.type = "mousedown"
           /\ ContentNodeMissing(mainEl, codeblockNumericId, lastEvent'.line[1]))
          => (selection' = selection /\ mouseDownStartLine' = <<>>)
       /\ (/\ lastEvent'.type = "mouseover"
           /\ lastEvent'.line # <<>>
           /\ mouseDownStartLine # <<>>
           /\ \/ ContentNodeMissing(mainEl, codeblockNumericId, mouseDownStartLine[1])
              \/ ContentNodeMissing(mainEl, codeblockNumericId, lastEvent'.line[1]))
          => selection' = selection]_vars

(***************************************************************************)
(* Claims about the copy button                                            *)
(***************************************************************************)
\* the button as genCopyButton built it
OriginalButton == genCopyButton(blockLanguage).kids[1]

\* C3: once no click handler is suspended and every revert timer has fired,
\* the button shows its original accessible label and its original copy icon.
C3_ButtonReverts ==
    (clickCount > 0 /\ clickHandlers = <<>> /\ timeouts = <<>>)
        => NodeAt(enhancedCodeBlock, ButtonPath(enhancedCodeBlock)) = OriginalButton

====
